---- MODULE Spec2Model ----
(***************************************************************************)
(* main() of main_bbox.py: the training / evaluation driver of the         *)
(* multi-view bounding-box classifier.  The driver is one sequential       *)
(* program; pc is its position.  The trainer (BBOXTrainer.train / .test),  *)
(* draw_curve and matlab_eval live in the multiview_detector package; the  *)
(* driver's calls of them are modelled by what the specification says      *)
(* they do.                                                                *)
(***************************************************************************)
EXTENDS Integers, Sequences, FiniteSets, TLC

\* ---------------------------------------------------------------- bounds
MaxEpochs == 2
MaxSplit == 3
MaxBatch == 2

\* ------------------------------------------------------------ the inputs
\* args.resume: None (flag absent), the empty string, or a directory name
NoResume == "<None>"
ResumeValues == {NoResume, "", "run1"}
TestTypes == {"val", "test"}

VARIABLES
    resume,          \* args.resume
    epochs,          \* args.epochs
    batch_size,      \* args.batch_size
    test_type,       \* args.test_type
    split_size,      \* number of samples of each on-disk split
    pc,              \* position of main()
    failed,          \* an exception has left main()
    epoch,           \* loop variable of the epoch loop
    logdir,          \* the run directory
    created,         \* the directories this run has created
    loaded_from,     \* the directory the checkpoint was loaded from
    params,          \* the model's parameters
    mode,            \* the model's mode: "train" or "eval"
    opt_steps,       \* optimizer.step() calls
    sched_steps,     \* scheduler.step() calls
    it,              \* the batch loader being iterated
    last_pass,       \* the last completed pass over a loader
    train_res,       \* (train_loss, train_prec) of this epoch
    test_res,        \* (test_loss, test_prec) of this epoch
    x_epoch, train_loss_s, train_prec_s, og_test_loss_s, og_test_prec_s,
    curve_file,      \* learning_curve.jpg: what the last draw_curve rendered
    ckpt_file,       \* MultiviewDetector.pth written by this run
    res_file,        \* the results file of the final test pass
    test_log,        \* what each trainer.test pass returned
    trace            \* the stages executed so far

vars == <<resume, epochs, batch_size, test_type, split_size, pc, failed, epoch,
          logdir, created, loaded_from, params, mode, opt_steps, sched_steps,
          it, last_pass, train_res, test_res, x_epoch, train_loss_s,
          train_prec_s, og_test_loss_s, og_test_prec_s, curve_file, ckpt_file,
          res_file, test_log, trace>>

args == <<resume, epochs, batch_size, test_type, split_size>>
curves == <<x_epoch, train_loss_s, train_prec_s, og_test_loss_s, og_test_prec_s>>

None == [none |-> TRUE]

\* --------------------------------------------------------------- helpers
\* Python truthiness of args.resume: None and '' are falsy
Truthy(r) == r # NoResume /\ r # ""

\* f'logs/{args.dataset}/' + strftime(...)
StampDir == [kind |-> "stamp"]
\* f'logs/{args.dataset}/{args.resume}'  and  f'logs/{args.dataset}/' + args.resume
NamedDir(r) == [kind |-> "named", name |-> r]

\* the split behind each loader: test_set is built from args.test_type
LoaderSplit(l) == IF l = "test" THEN test_type ELSE l
LoaderSize(l) == split_size[LoaderSplit(l)]
Shuffled(l) == l = "train"

Event(s, e) == <<s, e>>
Emit(s, e) == trace' = Append(trace, Event(s, e))
Count(s) == Cardinality({i \in 1..Len(trace) : trace[i][1] = s})

\* ------------------------------------------------------------------ Init
Init ==
    /\ resume \in ResumeValues
    /\ epochs \in 0..MaxEpochs
    /\ batch_size \in 1..MaxBatch
    /\ test_type \in TestTypes
    /\ split_size \in [{"train", "val", "test"} -> 0..MaxSplit]
    /\ pc = "dataset"
    /\ failed = FALSE
    /\ epoch = 0
    /\ logdir = None
    /\ created = {}
    /\ loaded_from = None
    /\ params = None
    /\ mode = "none"
    /\ opt_steps = 0
    /\ sched_steps = 0
    /\ it = None
    /\ last_pass = None
    /\ train_res = None
    /\ test_res = None
    /\ x_epoch = <<>>
    /\ train_loss_s = <<>>
    /\ train_prec_s = <<>>
    /\ og_test_loss_s = <<>>
    /\ og_test_prec_s = <<>>
    /\ curve_file = None
    /\ ckpt_file = None
    /\ res_file = None
    /\ test_log = <<>>
    /\ trace = <<>>

\* --------------------------------------------------------------- startup
\* lines 55-62: the three dataset splits
BuildDatasets ==
    /\ pc = "dataset"
    /\ pc' = "loaders"
    /\ Emit("dataset", 0)
    /\ UNCHANGED <<args, failed, epoch, logdir, created, loaded_from, params,
                   mode, opt_steps, sched_steps, it, last_pass, train_res,
                   test_res, curves, curve_file, ckpt_file, res_file, test_log>>

\* lines 68-73: the three batch loaders
BuildLoaders ==
    /\ pc = "loaders"
    /\ pc' = "logdir"
    /\ Emit("loaders", 0)
    /\ UNCHANGED <<args, failed, epoch, logdir, created, loaded_from, params,
                   mode, opt_steps, sched_steps, it, last_pass, train_res,
                   test_res, curves, curve_file, ckpt_file, res_file, test_log>>

\* lines 75-76: the run directory
ChooseLogdir(r) == IF ~Truthy(r) THEN StampDir ELSE NamedDir(r)

\* line 77: the run directory is created (with snapshot and log redirection)
CreatesLogdir(r) == r = NoResume

\* the loop guarded by the truthiness of args.resume instead
IsTrainingFalsy(r) == ~Truthy(r)

\* line 109: the epoch loop runs
IsTraining(r) == r = NoResume

\* lines 75-86
SetupLogdir ==
    /\ pc = "logdir"
    /\ logdir' = ChooseLogdir(resume)
    /\ created' = IF CreatesLogdir(resume) THEN created \cup {logdir'} ELSE created
    /\ pc' = "model"
    /\ Emit("logdir", 0)
    /\ UNCHANGED <<args, failed, epoch, loaded_from, params,
                   mode, opt_steps, sched_steps, it, last_pass, train_res,
                   test_res, curves, curve_file, ckpt_file, res_file, test_log>>

\* the parameters of a freshly constructed model, and those of the saved one
FreshParams == [base |-> "fresh", steps |-> 0]
SavedParams(d) == [base |-> "saved", dir |-> d, steps |-> 0]

\* lines 89-109: model, optimizer, scheduler, criterion, empty curves, trainer
BuildModel ==
    /\ pc = "model"
    /\ params' = FreshParams
    /\ mode' = "train"
    /\ opt_steps' = 0
    /\ sched_steps' = 0
    /\ x_epoch' = <<>>
    /\ train_loss_s' = <<>>
    /\ train_prec_s' = <<>>
    /\ og_test_loss_s' = <<>>
    /\ og_test_prec_s' = <<>>
    /\ pc' = IF IsTraining(resume) THEN "loop" ELSE "load"
    /\ Emit("model", 0)
    /\ UNCHANGED <<args, failed, epoch, logdir, created, loaded_from,
                   it, last_pass, train_res,
                   test_res, curve_file, ckpt_file, res_file, test_log>>

\* ------------------------------------------------------- the batch loader
\* a loader built with drop_last=True
DropLastTrue == TRUE

\* lines 68-73: DataLoader is built without drop_last, which defaults to False
drop_last == FALSE

\* iter(loader): a new pass from the start of the split
StartIter(l) == [loader |-> l, pos |-> 0, sizes |-> <<>>, order |-> <<>>]
Remaining(i) == LoaderSize(i.loader) - i.pos
\* the batch sampler fills a batch up to batch_size and yields what is left at
\* the end of the split unless drop_last
BatchLen(i) == IF Remaining(i) >= batch_size THEN batch_size ELSE Remaining(i)
HasNext(i) == IF drop_last THEN Remaining(i) >= batch_size ELSE Remaining(i) > 0
\* next(iterator): the samples of the next batch; a sequential sampler hands
\* them out in split order, a shuffling one in an order that is not tracked
Yield(i) ==
    [i EXCEPT !.pos = @ + BatchLen(i),
              !.sizes = Append(@, BatchLen(i)),
              !.order = IF Shuffled(i.loader) THEN @
                        ELSE @ \o [k \in 1..BatchLen(i) |-> i.pos + k]]

\* ------------------------------------------------------------ the trainer
\* what a pass reports: mean loss and accuracy of these parameters on a split
Loss(p, l) == [metric |-> "loss", on |-> LoaderSplit(l), params |-> p]
Prec(p, l) == [metric |-> "prec", on |-> LoaderSplit(l), params |-> p]

\* trainer.train called without its scheduler argument
TrainSchedulerArgNone == "none"

\* line 115: the scheduler handed to trainer.train
TrainSchedulerArg == "scheduler"

\* trainer.train: model.train(), then the batches
TrainBegin ==
    /\ pc = "train"
    /\ mode' = "train"
    /\ it' = StartIter("train")
    /\ pc' = "train_iter"
    /\ Emit("train_begin", epoch)
    /\ UNCHANGED <<args, failed, epoch, logdir, created, loaded_from, params,
                   opt_steps, sched_steps, last_pass, train_res,
                   test_res, curves, curve_file, ckpt_file, res_file, test_log>>

\* one training batch: forward, loss, backward, optimizer.step, scheduler.step
OptimizerStep(p) == [p EXCEPT !.steps = @ + 1]

TrainBatch ==
    /\ pc = "train_iter"
    /\ HasNext(it)
    /\ it' = Yield(it)
    /\ params' = OptimizerStep(params)
    /\ opt_steps' = opt_steps + 1
    /\ sched_steps' = IF TrainSchedulerArg = "scheduler" THEN sched_steps + 1
                      ELSE sched_steps
    /\ UNCHANGED <<args, pc, failed, epoch, logdir, created, loaded_from,
                   mode, last_pass, train_res, trace,
                   test_res, curves, curve_file, ckpt_file, res_file, test_log>>

\* the loader is exhausted: trainer.train returns (loss, prec)
TrainEnd ==
    /\ pc = "train_iter"
    /\ ~HasNext(it)
    /\ last_pass' = it
    /\ it' = None
    /\ train_res' = [loss |-> Loss(params, "train"), prec |-> Prec(params, "train")]
    /\ pc' = "validate"
    /\ Emit("train_end", epoch)
    /\ UNCHANGED <<args, failed, epoch, logdir, created, loaded_from, params,
                   mode, opt_steps, sched_steps,
                   test_res, curves, curve_file, ckpt_file, res_file, test_log>>

\* trainer.test: model.eval(), then the batches, without gradient updates
TestBegin(stage, l) ==
    /\ pc = stage
    /\ mode' = "eval"
    /\ it' = StartIter(l)
    /\ pc' = stage \o "_iter"
    /\ Emit(stage \o "_begin", epoch)
    /\ UNCHANGED <<args, failed, epoch, logdir, created, loaded_from, params,
                   opt_steps, sched_steps, last_pass, train_res,
                   test_res, curves, curve_file, ckpt_file, res_file, test_log>>

\* an evaluation batch that updates the parameters
EvalStepUpdates(p) == [p EXCEPT !.steps = @ + 1]

\* the parameters after one evaluation batch
EvalStep(p) == p

TestBatch(stage) ==
    /\ pc = stage \o "_iter"
    /\ HasNext(it)
    /\ it' = Yield(it)
    /\ params' = EvalStep(params)
    /\ UNCHANGED <<args, pc, failed, epoch, logdir, created, loaded_from,
                   mode, opt_steps, sched_steps, last_pass, train_res, trace,
                   test_res, curves, curve_file, ckpt_file, res_file, test_log>>

\* the loader is exhausted: trainer.test writes res_fpath when given and
\* returns (loss, prec)
TestEnd(stage, writes, next) ==
    /\ pc = stage \o "_iter"
    /\ ~HasNext(it)
    /\ last_pass' = it
    /\ it' = None
    /\ test_log' = Append(test_log, [loader |-> it.loader,
                                     split |-> LoaderSplit(it.loader),
                                     opt_steps |-> opt_steps,
                                     loss |-> Loss(params, it.loader),
                                     prec |-> Prec(params, it.loader)])
    /\ IF writes
       THEN /\ res_file' = [dir |-> logdir, split |-> test_type, params |-> params]
            /\ UNCHANGED test_res
       ELSE /\ test_res' = [loss |-> Loss(params, it.loader),
                            prec |-> Prec(params, it.loader)]
            /\ UNCHANGED res_file
    /\ pc' = next
    /\ Emit(stage \o "_end", epoch)
    /\ UNCHANGED <<args, failed, epoch, logdir, created, loaded_from, params,
                   mode, opt_steps, sched_steps, train_res,
                   curves, curve_file, ckpt_file>>

\* ---------------------------------------------------------- the epoch loop
\* range(1, args.epochs)
LoopLastExclusive(n) == n - 1

\* line 113: for epoch in range(1, args.epochs + 1)
LoopLast(n) == n

LoopHead ==
    /\ pc = "loop"
    /\ IF epoch + 1 <= LoopLast(epochs)
       THEN epoch' = epoch + 1 /\ pc' = "train"
       ELSE epoch' = epoch /\ pc' = "save"
    /\ UNCHANGED <<args, failed, logdir, created, loaded_from, params,
                   mode, opt_steps, sched_steps, it, last_pass, train_res, trace,
                   test_res, curves, curve_file, ckpt_file, res_file, test_log>>

\* line 117
ValidateBegin == TestBegin("validate", "val")
ValidateBatch == TestBatch("validate")
ValidateEnd == TestEnd("validate", FALSE, "append")

\* the append of line 123 left out
AppendTestPrecSkipped(s, v) == s

\* line 123: og_test_prec_s.append(test_prec)
AppendTestPrec(s, v) == Append(s, v)

\* lines 119-123
AppendCurve ==
    /\ pc = "append"
    /\ x_epoch' = Append(x_epoch, epoch)
    /\ train_loss_s' = Append(train_loss_s, train_res.loss)
    /\ train_prec_s' = Append(train_prec_s, train_res.prec)
    /\ og_test_loss_s' = Append(og_test_loss_s, test_res.loss)
    /\ og_test_prec_s' = AppendTestPrec(og_test_prec_s, test_res.prec)
    /\ pc' = "draw"
    /\ Emit("append", epoch)
    /\ UNCHANGED <<args, failed, epoch, logdir, created, loaded_from, params,
                   mode, opt_steps, sched_steps, it, last_pass, train_res,
                   test_res, curve_file, ckpt_file, res_file, test_log>>

\* the save of line 127 indented into the loop body
AfterDrawSave == "save"

\* where main() goes after draw_curve: back to the head of the loop
AfterDraw == "loop"

\* lines 124-125: draw_curve overwrites learning_curve.jpg
DrawCurve ==
    /\ pc = "draw"
    /\ curve_file' = [dir |-> logdir, x |-> x_epoch,
                      train_loss |-> train_loss_s, train_prec |-> train_prec_s,
                      test_loss |-> og_test_loss_s, test_prec |-> og_test_prec_s]
    /\ pc' = AfterDraw
    /\ Emit("draw", epoch)
    /\ UNCHANGED <<args, failed, epoch, logdir, created, loaded_from, params,
                   mode, opt_steps, sched_steps, it, last_pass, train_res,
                   test_res, curves, ckpt_file, res_file, test_log>>

\* line 127: torch.save(model.state_dict(), logdir/MultiviewDetector.pth)
Save ==
    /\ pc = "save"
    /\ ckpt_file' = [dir |-> logdir, params |-> params]
    /\ pc' = "final_test"
    /\ Emit("save", 0)
    /\ UNCHANGED <<args, failed, epoch, logdir, created, loaded_from, params,
                   mode, opt_steps, sched_steps, it, last_pass, train_res,
                   test_res, curves, curve_file, res_file, test_log>>

\* lines 129-132: load_state_dict(torch.load(resume_dir/MultiviewDetector.pth))
Load ==
    /\ pc = "load"
    /\ loaded_from' = NamedDir(resume)
    /\ params' = SavedParams(NamedDir(resume))
    /\ mode' = "eval"
    /\ pc' = "final_test"
    /\ Emit("load", 0)
    /\ UNCHANGED <<args, failed, epoch, logdir, created,
                   opt_steps, sched_steps, it, last_pass, train_res,
                   test_res, curves, curve_file, ckpt_file, res_file, test_log>>

\* line 134
FinalTestBegin == TestBegin("final_test", "test")
FinalTestBatch == TestBatch("final_test")
FinalTestEnd == TestEnd("final_test", TRUE, "eval")

\* line 135: matlab_eval(results file, ground truth)
Evaluate ==
    /\ pc = "eval"
    /\ pc' = "done"
    /\ Emit("eval", 0)
    /\ UNCHANGED <<args, failed, epoch, logdir, created, loaded_from, params,
                   mode, opt_steps, sched_steps, it, last_pass, train_res,
                   test_res, curves, curve_file, ckpt_file, res_file, test_log>>

\* --------------------------------------------------------------- failures
\* the exception caught and the stage entered again
RaiseCaught == pc' = pc /\ failed' = TRUE

\* main() has no try/except: an exception raised in any stage leaves main()
Raise == pc' = "failed" /\ failed' = TRUE

Fail ==
    /\ pc \notin {"done", "failed"}
    /\ Raise
    /\ UNCHANGED <<args, epoch, logdir, created, loaded_from, params,
                   mode, opt_steps, sched_steps, it, last_pass, train_res, trace,
                   test_res, curves, curve_file, ckpt_file, res_file, test_log>>

Next ==
    \/ BuildDatasets
    \/ BuildLoaders
    \/ SetupLogdir
    \/ BuildModel
    \/ LoopHead
    \/ TrainBegin
    \/ TrainBatch
    \/ TrainEnd
    \/ ValidateBegin
    \/ ValidateBatch
    \/ ValidateEnd
    \/ AppendCurve
    \/ DrawCurve
    \/ Save
    \/ Load
    \/ FinalTestBegin
    \/ FinalTestBatch
    \/ FinalTestEnd
    \/ Evaluate
    \/ Fail

Spec == Init /\ [][Next]_vars

\* ================================================================ claims
IsPrefix(s, t) == Len(s) <= Len(t) /\ SubSeq(t, 1, Len(s)) = s
Ceil(n, b) == (n + b - 1) \div b
Iota(k) == [i \in 1..k |-> i]

Startup ==
    <<Event("dataset", 0), Event("loaders", 0), Event("logdir", 0), Event("model", 0)>>
EpochStages(e) ==
    <<Event("train_begin", e), Event("train_end", e),
      Event("validate_begin", e), Event("validate_end", e),
      Event("append", e), Event("draw", e)>>
RECURSIVE EpochsUpTo(_)
EpochsUpTo(k) == IF k = 0 THEN <<>> ELSE EpochsUpTo(k - 1) \o EpochStages(k)
TrainingRun(E) ==
    Startup \o EpochsUpTo(E) \o
    <<Event("save", 0), Event("final_test_begin", E), Event("final_test_end", E),
      Event("eval", 0)>>
ResumeRun ==
    Startup \o
    <<Event("load", 0), Event("final_test_begin", 0), Event("final_test_end", 0),
      Event("eval", 0)>>

\* C1: in a training run (resume absent) the stages run in the order
\* train(e), validate(e), append/draw(e) for e = 1..epochs, epoch e+1 starting
\* only after epoch e's draw; the final test pass starts only after all epochs;
\* the evaluator is invoked exactly once, after the results file is written.
C1_StageOrder ==
    resume = NoResume =>
        /\ IsPrefix(trace, TrainingRun(epochs))
        /\ (pc = "done" => trace = TrainingRun(epochs))
        /\ Count("eval") <= 1
        /\ (Count("eval") = 1 => res_file # None /\ Count("final_test_end") = 1)
        /\ (Count("final_test_begin") > 0 => Count("draw") = epochs)

C1_Witness ==
    resume = NoResume /\ epochs >= 2 /\ pc = "done" /\ Count("eval") = 1

\* C2: in a resume run (resume given) no training step, validation pass, curve
\* append or checkpoint write happens; the saved checkpoint is loaded into the
\* fresh model before the final test pass starts; the final test pass and the
\* evaluator each run at most once, and exactly once in a run that completes.
C2_ResumeSkipsTraining ==
    resume # NoResume =>
        /\ Count("train_begin") = 0 /\ opt_steps = 0 /\ sched_steps = 0
        /\ Count("validate_begin") = 0
        /\ Count("append") = 0 /\ Count("draw") = 0
        /\ x_epoch = <<>> /\ train_loss_s = <<>> /\ train_prec_s = <<>>
        /\ og_test_loss_s = <<>> /\ og_test_prec_s = <<>> /\ curve_file = None
        /\ Count("save") = 0 /\ ckpt_file = None
        /\ IsPrefix(trace, ResumeRun)
        /\ (Count("final_test_begin") > 0 =>
                /\ Count("load") = 1
                /\ params = SavedParams(NamedDir(resume))
                /\ loaded_from = NamedDir(resume))
        /\ (pc = "done" => Count("final_test_end") = 1 /\ Count("eval") = 1)

C2_Witness ==
    resume = "" /\ pc = "done" /\ Count("load") = 1 /\ res_file # None

\* C3: in a training run the checkpoint is written exactly once, after the
\* last epoch's train/validate/log and before the final test pass, never
\* inside the epoch loop; before the last epoch has completed no checkpoint
\* of this run exists (for epochs = 0 the untrained parameters are saved).
C3_CheckpointOnceAtEnd ==
    resume = NoResume =>
        /\ Count("save") <= 1
        /\ (ckpt_file # None <=> Count("save") = 1)
        /\ (Count("draw") < epochs => ckpt_file = None)
        /\ (ckpt_file # None =>
                /\ Count("train_end") = epochs /\ Count("validate_end") = epochs
                /\ Len(x_epoch) = epochs
                /\ ckpt_file.params = params
                /\ ckpt_file.dir = logdir
                /\ (epochs = 0 => ckpt_file.params = FreshParams))
        /\ (Count("final_test_begin") > 0 => Count("save") = 1)
        /\ (pc = "done" => Count("save") = 1)

C3_Witness ==
    resume = NoResume /\ epochs >= 2 /\ ckpt_file # None /\ pc = "done"
        /\ ckpt_file.params.steps > 0

NoRepeat == \A i, j \in 1..Len(trace) : i < j => trace[i] # trace[j]

\* C4: a failure in any stage is terminal: once a stage has failed nothing
\* changes any more (no later stage, no checkpoint, no results file, no
\* evaluator), and no stage is executed a second time.
C4_FailureIsTerminal ==
    /\ [][~failed]_vars
    /\ [](failed => pc = "failed")
    /\ []NoRepeat

C4_Witness ==
    /\ failed /\ it # None /\ it.loader = "train" /\ it.pos > 0
    /\ ckpt_file = None /\ res_file = None /\ Count("eval") = 0

TestStages == {"validate", "validate_iter", "final_test", "final_test_iter"}

SamePasses(a, b) ==
    (a.split = b.split /\ a.opt_steps = b.opt_steps) => (a.loss = b.loss /\ a.prec = b.prec)

\* C5: an evaluation pass (validation or final test) leaves the parameters,
\* the optimizer state and the scheduler position unchanged, so two test passes
\* over the same split with no training in between return the same loss and
\* accuracy.
C5_TestLeavesModelUnchanged ==
    /\ [][(pc \in TestStages) =>
            (params' = params /\ opt_steps' = opt_steps /\ sched_steps' = sched_steps)]_vars
    /\ [](\A i, j \in 1..Len(test_log) : SamePasses(test_log[i], test_log[j]))

C5_Witness ==
    /\ test_type = "val" /\ epochs >= 1 /\ pc = "done" /\ split_size["val"] >= 2
    /\ Len(test_log) >= 2
    /\ test_log[Len(test_log)].split = test_log[Len(test_log) - 1].split
    /\ test_log[Len(test_log)].loss = test_log[Len(test_log) - 1].loss

\* a completed pass over a loader
PassOK(p) ==
    LET n == LoaderSize(p.loader)
        k == Len(p.sizes)
    IN  /\ k = Ceil(n, batch_size)
        /\ \A j \in 1..(k - 1) : p.sizes[j] = batch_size
        /\ (k > 0 => p.sizes[k] \in 1..batch_size)
        /\ p.pos = n
        /\ (~Shuffled(p.loader) => p.order = Iota(n))
\* a pass under way
PassSoFarOK(p) ==
    LET n == LoaderSize(p.loader)
        k == Len(p.sizes)
    IN  /\ k <= Ceil(n, batch_size)
        /\ \A j \in 1..(k - 1) : p.sizes[j] = batch_size
        /\ (~Shuffled(p.loader) => p.order = Iota(p.pos))

\* C6: one pass over a loader of n samples with batch size b yields exactly
\* ceil(n / b) batches and stops; every batch but possibly the last has b
\* samples; a non-shuffled loader hands out every sample once, in split order;
\* the next epoch's pass starts again from the first sample.
C6_LoaderBatches ==
    /\ (last_pass # None => PassOK(last_pass))
    /\ (it # None => PassSoFarOK(it))
    /\ (it # None /\ it.sizes = <<>> => it.pos = 0)

C6_Witness ==
    /\ last_pass # None /\ last_pass.loader = "val" /\ epoch = 2 /\ pc = "append"
    /\ split_size["val"] = 3 /\ batch_size = 2 /\ last_pass.sizes = <<2, 1>>

TrainBatchesSoFar == IF it # None /\ it.loader = "train" THEN Len(it.sizes) ELSE 0

AllCurves == <<x_epoch, train_loss_s, train_prec_s, og_test_loss_s, og_test_prec_s>>
Rendered(f) == <<f.x, f.train_loss, f.train_prec, f.test_loss, f.test_prec>>

\* C9: the five curve sequences stay parallel: at every draw_curve call and at
\* the end of the run they all have length k, the number of epochs logged;
\* the epoch sequence is 1..k; each sequence is only appended to; draw_curve
\* is called once per epoch, after that epoch's append.
C9_CurvesParallel ==
    /\ [](\A i \in 1..5 : Len(AllCurves[i]) = Count("append"))
    /\ [](x_epoch = Iota(Len(x_epoch)))
    /\ [](\/ Count("draw") = Count("append")
          \/ Count("draw") = Count("append") - 1 /\ pc \in {"draw", "failed"})
    /\ [](\A i \in 1..Len(trace) :
            trace[i][1] = "draw" => i > 1 /\ trace[i - 1] = Event("append", trace[i][2]))
    /\ []NoRepeat
    /\ [](curve_file # None =>
            /\ \A i \in 1..5 : Len(Rendered(curve_file)[i]) = Count("draw")
            /\ curve_file.x = Iota(Count("draw")))
    /\ [](pc = "done" /\ resume = NoResume => Len(x_epoch) = epochs)
    /\ [][\A i \in 1..5 : IsPrefix(AllCurves[i], AllCurves[i]')]_vars

C9_Witness ==
    /\ Len(x_epoch) = 2 /\ curve_file # None /\ Len(curve_file.test_prec) = 2
    /\ pc = "done"

\* C10: for every value of the resume flag the three decisions agree on one
\* run mode: the run directory is the timestamped one and is created exactly
\* when training runs; otherwise it is the resume-named directory, from which
\* the checkpoint is loaded and into which the results file is written; the
\* results file always goes into a directory this run created or loaded from.
C10_OneRunMode ==
    logdir # None =>
        /\ (IsTraining(resume) <=> (logdir = StampDir /\ logdir \in created))
        /\ (IsTraining(resume) <=> logdir = StampDir)
        /\ (~IsTraining(resume) =>
                /\ logdir = NamedDir(resume)
                /\ (loaded_from # None => loaded_from = logdir)
                /\ (res_file # None => res_file.dir = logdir))
        /\ (res_file # None => res_file.dir \in created \cup {loaded_from})

====
